---- MODULE Spec2Model ----
(***************************************************************************)
(* A model of src/geoplot.py: the GeoPlot engine that turns a simulation   *)
(* state trajectory into a .geojson file and a Cesium .html viewer.        *)
(*                                                                         *)
(* Python values are modelled as follows.                                  *)
(*   str that the code takes apart (the option paths): a sequence of       *)
(*     one-character strings;                                              *)
(*   nested state: [kind |-> "map", items |-> function from keys] or       *)
(*     [kind |-> "tensor", ndim, rows];                                    *)
(*   pd.Timestamp: whole seconds since the epoch;                          *)
(*   a text file: a sequence of tokens (see the JSON section).             *)
(***************************************************************************)
EXTENDS Integers, Sequences, FiniteSets, TLC

VARIABLES
    config,            \* self.config
    cesium_token,      \* self.cesium_token
    step_time,         \* self.step_time
    entity_position,   \* self.entity_position
    entity_property,   \* self.entity_property
    visualization_type,\* self.visualization_type
    state_trajectory,  \* the caller's runner.state_trajectory
    geodata_file,      \* the file f"{sim_name}.geojson"
    geoplot_file,      \* the file f"{sim_name}.html"
    frame              \* the local variables of the most recent render call

self == <<config, cesium_token, step_time, entity_position, entity_property,
          visualization_type>>
files == <<geodata_file, geoplot_file>>
vars == <<config, cesium_token, step_time, entity_position, entity_property,
          visualization_type, state_trajectory, geodata_file, geoplot_file, frame>>

(***************************************************************************)
(* Bounds of the model.                                                    *)
(***************************************************************************)
MaxEpisodes == 3

Min(a, b) == IF a < b THEN a ELSE b

(***************************************************************************)
(* Nested simulation state.                                                *)
(***************************************************************************)
\* A node of the state: a mapping from keys to nodes, or an array leaf held as
\* numpy holds it, a shape and the elements in row-major order.
Mapping(f) == [kind |-> "map", items |-> f, shape |-> <<>>, data |-> <<>>]
Tensor(shape, data) == [kind |-> "tensor", items |-> <<>>, shape |-> shape, data |-> data]

\* The option strings "ag/xy" and "ag/v", and the keys they are made of.
KeyAgents == <<"a", "g">>
KeyCoords == <<"x", "y">>
KeyValue == <<"v">>
CoordinatesPath == KeyAgents \o <<"/">> \o KeyCoords
FeaturePath == KeyAgents \o <<"/">> \o KeyValue

Snapshot(coords, feature) ==
    Mapping(KeyAgents :> Mapping(KeyCoords :> coords @@ KeyValue :> feature))

\* One agent at (lat 1, lon 2) with value 5, as a flat feature array.
SnapA == Snapshot(Tensor(<<1, 2>>, <<1, 2>>), Tensor(<<1>>, <<5>>))
\* One agent at (lat 3, lon 4) with value 6, as an N x 1 feature array.
SnapB == Snapshot(Tensor(<<1, 2>>, <<3, 4>>), Tensor(<<1, 1>>, <<6>>))
\* Two agents.
SnapC == Snapshot(Tensor(<<2, 2>>, <<1, 2, 3, 4>>), Tensor(<<2, 1>>, <<7, 8>>))
\* The coordinates path does not exist.
SnapNoCoords == Mapping(KeyAgents :> Mapping(KeyValue :> Tensor(<<1>>, <<5>>)))
\* The feature path does not exist.
SnapNoFeature == Mapping(KeyAgents :> Mapping(KeyCoords :> Tensor(<<1, 2>>, <<1, 2>>)))

\* The episodes the runner may produce: sequences of per-step snapshots.
Episodes ==
    { <<SnapA>>, <<SnapA, SnapB>>, <<SnapB, SnapC>>,
      <<SnapB, SnapNoCoords>>, <<SnapA, SnapNoFeature>> }

(***************************************************************************)
(* read_var and the path resolver.                                         *)
(***************************************************************************)
HasSlash(s) == \E k \in 1..Len(s) : s[k] = "/"
FirstSlash(s) == CHOOSE k \in 1..Len(s) : s[k] = "/" /\ \A j \in 1..(k - 1) : s[j] # "/"

\* re.split("/", var): the segments between the slashes, empty ones kept.
RECURSIVE re_split(_)
re_split(s) ==
    IF ~HasSlash(s) THEN <<s>>
    ELSE <<SubSeq(s, 1, FirstSlash(s) - 1)>>
         \o re_split(SubSeq(s, FirstSlash(s) + 1, Len(s)))

\* One step of the traversal: keyed access into a mapping; a tensor leaf has no
\* string keys.
Found(node) == [raised |-> "none", value |-> node]
NotFound(node) == [raised |-> "KeyError", value |-> node]
getitem(node, key) ==
    IF node.kind = "map" /\ key \in DOMAIN node.items
    THEN Found(node.items[key])
    ELSE NotFound(node)

\* get_by_path(root, items): reduce(getitem, items, root), failing on an
\* absent segment.
RECURSIVE get_by_path(_, _)
get_by_path(root, items) ==
    IF items = <<>> THEN Found(root)
    ELSE LET r == getitem(root, Head(items))
         IN IF r.raised # "none" THEN r ELSE get_by_path(r.value, Tail(items))

read_var(state, var) == get_by_path(state, re_split(var))

(***************************************************************************)
(* numpy conversions.                                                      *)
(***************************************************************************)
\* np.array(x).tolist(): nested lists, one level per dimension.
tolist(t) ==
    IF Len(t.shape) = 1 THEN t.data
    ELSE [r \in 1..t.shape[1] |->
            [c \in 1..t.shape[2] |-> t.data[(r - 1) * t.shape[2] + c]]]
\* np.array(x).flatten().tolist(): the elements in row-major order.
flatten(t) == t.data

(***************************************************************************)
(* GeoPlot.render, lines 221-234: extraction.                              *)
(***************************************************************************)
\* Mutant: coords and values live on from the call before.
LocalsKept(previous) == [coords |-> previous.coords, values |-> previous.values]

\* The locals a call starts with (line 221), whatever an earlier call left.
LocalsAtEntry(previous) == [coords |-> <<>>, values |-> <<>>]

\* Mutant: range(len(state_trajectory)), the last episode processed too.
LoopRangeAll(trajectory) == 1..Len(trajectory)

\* range(len(state_trajectory) - 1), as the 1-based episode numbers.
LoopRange(trajectory) == 1..(Len(trajectory) - 1)

\* Mutant: state_trajectory[i][0], the first snapshot of the episode.
FirstState(episode) == episode[1]

\* state_trajectory[i][-1]
FinalState(episode) == episode[Len(episode)]

\* Mutant: coords captured once, by the first iteration only.
KeepFirstCoords(old, new) == IF old = <<>> THEN new ELSE old

\* coords = ... : the assignment replaces what an earlier iteration stored.
AssignCoords(old, new) == new

\* values.append(...)
AppendValues(values, value_list) == Append(values, value_list)

\* One iteration of the loop on episode i, from the locals `loc`
\* ([raised, line, coords, values]).
LoopBody(loc, episode) ==
    IF Len(episode) = 0
    THEN [loc EXCEPT !.raised = "IndexError", !.line = 228]
    ELSE LET final_state == FinalState(episode)
             c == read_var(final_state, entity_position)
             v == read_var(final_state, entity_property)
         IN IF c.raised # "none"
            THEN [loc EXCEPT !.raised = c.raised, !.line = 231]
            ELSE IF v.raised # "none"
            THEN [loc EXCEPT !.raised = v.raised, !.line = 234,
                             !.coords = AssignCoords(loc.coords, tolist(c.value))]
            ELSE [loc EXCEPT !.coords = AssignCoords(loc.coords, tolist(c.value)),
                             !.values = AppendValues(loc.values, flatten(v.value))]

\* The loop of lines 227-234 from iteration i on; it stops where an iteration raises.
RECURSIVE Loop(_, _, _)
Loop(loc, trajectory, i) ==
    IF loc.raised # "none" \/ i \notin LoopRange(trajectory) THEN loc
    ELSE Loop(LoopBody(loc, trajectory[i]), trajectory, i + 1)

(***************************************************************************)
(* GeoPlot.render, lines 236-243: the timeline.                            *)
(***************************************************************************)
metadata_keys == DOMAIN config.simulation_metadata

\* num_episodes * num_steps_per_episode
TotalSteps ==
    config.simulation_metadata.num_episodes
    * config.simulation_metadata.num_steps_per_episode

\* Mutant: range(1, total_steps + 1), the timeline starting one step late.
TimestampsFromNext(start_time, total_steps) ==
    [k \in 1..total_steps |-> start_time + k * step_time]

\* [start_time + pd.Timedelta(seconds=i*self.step_time) for i in range(total_steps)]
Timestamps(start_time, total_steps) ==
    [k \in 1..total_steps |-> start_time + (k - 1) * step_time]

\* Mutant: time.time().isoformat(), the date dropped.
isoformat_time_only(t) ==
    [days |-> 0, hh |-> (t % 86400) \div 3600, mm |-> (t % 3600) \div 60, ss |-> t % 60]

\* pd.Timestamp.isoformat(): the date (as a day number) and the time of day.
isoformat(t) ==
    [days |-> t \div 86400, hh |-> (t % 86400) \div 3600,
     mm |-> (t % 3600) \div 60, ss |-> t % 60]

(***************************************************************************)
(* GeoPlot.render, lines 245-262: the feature collections.                 *)
(***************************************************************************)
\* Mutant: the shorter sequence padded with its last entry instead of the
\* longer one being cut.
zip_padded(timestamps, values) ==
    IF Len(timestamps) = 0 \/ Len(values) = 0 THEN <<>>
    ELSE [k \in 1..(IF Len(timestamps) > Len(values) THEN Len(timestamps) ELSE Len(values)) |->
            [time |-> timestamps[Min(k, Len(timestamps))],
             value_list |-> values[Min(k, Len(values))]]]

\* zip(timestamps, values): position-aligned pairs, as many as the shorter has.
zip(timestamps, values) ==
    [k \in 1..Min(Len(timestamps), Len(values)) |->
        [time |-> timestamps[k], value_list |-> values[k]]]

\* Mutant: "coordinates": [coord[0], coord[1]], latitude first.
GeometryCoordinatesUnswapped(coord) == <<coord[1], coord[2]>>

\* "coordinates": [coord[1], coord[0]] of a [lat, lon] pair (0-based in the code).
GeometryCoordinates(coord) == <<coord[2], coord[1]>>

Feature(idx, coord, pair) ==
    [type |-> "Feature",
     geometry |-> [type |-> "Point", coordinates |-> GeometryCoordinates(coord)],
     properties |-> [value |-> pair.value_list[idx], time |-> isoformat(pair.time)]]

\* value_list[idx] raises IndexError for an agent the value list does not cover.
FeaturesRaise(idx, pairs) == \E k \in 1..Len(pairs) : idx > Len(pairs[k].value_list)

FeatureCollection(idx, coord, pairs) ==
    [type |-> "FeatureCollection",
     features |-> [k \in 1..Len(pairs) |-> Feature(idx, coord, pairs[k])]]

\* The agents (1-based idx) whose comprehension raises.
Failing(coords, pairs) == {idx \in 1..Len(coords) : FeaturesRaise(idx, pairs)}
FirstFailing(coords, pairs) ==
    CHOOSE idx \in Failing(coords, pairs) : \A j \in Failing(coords, pairs) : idx <= j

\* geojsons after the loop of lines 247-262: one collection per agent, up to
\* the first agent whose comprehension raises.
Geojsons(coords, pairs) ==
    LET n == IF Failing(coords, pairs) = {} THEN Len(coords)
             ELSE FirstFailing(coords, pairs) - 1
    IN [idx \in 1..n |-> FeatureCollection(idx, coords[idx], pairs)]

(***************************************************************************)
(* Text.  A text is a sequence of tokens [t, s, n, iso]: punctuation, a    *)
(* string literal, a number, white space, or an ISO-8601 time.             *)
(***************************************************************************)
NoIso == [days |-> 0, hh |-> 0, mm |-> 0, ss |-> 0]
Punct(c) == [t |-> "punct", s |-> c, n |-> 0, iso |-> NoIso]
Quoted(str) == [t |-> "string", s |-> str, n |-> 0, iso |-> NoIso]
QuotedIso(i) == [t |-> "string", s |-> "", n |-> 0, iso |-> i]
Number(n) == [t |-> "number", s |-> "", n |-> n, iso |-> NoIso]
Raw(str) == [t |-> "raw", s |-> str, n |-> 0, iso |-> NoIso]
RawIso(i) == [t |-> "raw", s |-> "", n |-> 0, iso |-> i]
Space == [t |-> "space", s |-> " ", n |-> 0, iso |-> NoIso]
\* A line break followed by n spaces of indentation.
Newline(n) == [t |-> "space", s |-> "\n", n |-> n, iso |-> NoIso]

(***************************************************************************)
(* json.dump / json.dumps.  indent = -1 stands for indent=None.            *)
(***************************************************************************)
\* What follows an opening bracket, separates two items, and precedes the closing
\* bracket of a non-empty container at nesting depth `level`.
ItemOpen(indent, level) == IF indent < 0 THEN <<>> ELSE <<Newline(indent * (level + 1))>>
ItemSeparator(indent, level) ==
    IF indent < 0 THEN <<Punct(","), Space>>
    ELSE <<Punct(","), Newline(indent * (level + 1))>>
ItemClose(indent, level) == IF indent < 0 THEN <<>> ELSE <<Newline(indent * level)>>

RECURSIVE JoinItems(_, _)
JoinItems(items, sep) ==
    IF Len(items) = 0 THEN <<>>
    ELSE IF Len(items) = 1 THEN items[1]
    ELSE items[1] \o sep \o JoinItems(Tail(items), sep)

\* A container whose items are already encoded.
Container(open, close, items, indent, level) ==
    IF Len(items) = 0 THEN <<Punct(open), Punct(close)>>
    ELSE <<Punct(open)>> \o ItemOpen(indent, level)
         \o JoinItems(items, ItemSeparator(indent, level))
         \o ItemClose(indent, level) \o <<Punct(close)>>

Member(key, value) == <<Quoted(key), Punct(":"), Space>> \o value
DumpList(items, indent, level) == Container("[", "]", items, indent, level)
DumpDict(members, indent, level) == Container("{", "}", members, indent, level)

DumpFeature(f, indent, level) ==
    DumpDict(<<
        Member("type", <<Quoted(f.type)>>),
        Member("geometry", DumpDict(<<
            Member("type", <<Quoted(f.geometry.type)>>),
            Member("coordinates",
                   DumpList([k \in 1..Len(f.geometry.coordinates) |->
                                <<Number(f.geometry.coordinates[k])>>],
                            indent, level + 2)) >>, indent, level + 1)),
        Member("properties", DumpDict(<<
            Member("value", <<Number(f.properties.value)>>),
            Member("time", <<QuotedIso(f.properties.time)>>) >>, indent, level + 1))
      >>, indent, level)

DumpCollection(c, indent, level) ==
    DumpDict(<<
        Member("type", <<Quoted(c.type)>>),
        Member("features",
               DumpList([k \in 1..Len(c.features) |->
                            DumpFeature(c.features[k], indent, level + 2)],
                        indent, level + 1)) >>, indent, level)

\* json.dumps(geojsons, indent=indent)
dumps(geojsons, indent) ==
    DumpList([k \in 1..Len(geojsons) |-> DumpCollection(geojsons[k], indent, 1)],
             indent, 0)

(***************************************************************************)
(* geoplot_template and string.Template.substitute.                        *)
(***************************************************************************)
Literal(toks) == [placeholder |-> "", text |-> toks]
Placeholder(name) == [placeholder |-> name, text |-> <<>>]

\* The template text, cut at its $-placeholders.  The literal text is kept as
\* opaque pieces, except `[]` of line 91, which reads like an empty JSON array.
geoplot_template == <<
    Literal(<<Raw("<!doctype html> ... Cesium.Ion.defaultAccessToken = '")>>),
    Placeholder("accessToken"),
    Literal(<<Raw("' ... result.alpha = '")>>),
    Placeholder("visualType"),
    Literal(<<Raw("' == 'size' ? 0.2 : ... timeSeriesMap.set(id, "),
              Punct("["), Punct("]"),
              Raw(") ... pixelSize: '")>>),
    Placeholder("visualType"),
    Literal(<<Raw("' == 'size' ? new Cesium.SampledProperty(Number) : 10, ... if ('")>>),
    Placeholder("visualType"),
    Literal(<<Raw("' == 'size') { ... const start = Cesium.JulianDate.fromIso8601('")>>),
    Placeholder("startTime"),
    Literal(<<Raw("') const stop = Cesium.JulianDate.fromIso8601('")>>),
    Placeholder("stopTime"),
    Literal(<<Raw("') ... for (const geoJsonData of geoJsons) { ... } </script></body></html>")>>)
  >>

TemplateNames(template) ==
    {template[k].placeholder : k \in 1..Len(template)} \ {""}

\* Template(template).substitute(mapping): every placeholder replaced by its
\* value; mapping keys the template does not name are ignored.
RECURSIVE substitute(_, _)
substitute(template, mapping) ==
    IF template = <<>> THEN <<>>
    ELSE (IF Head(template).placeholder = "" THEN Head(template).text
          ELSE mapping[Head(template).placeholder])
         \o substitute(Tail(template), mapping)

\* A placeholder without a value raises KeyError.
SubstituteRaises(template, mapping) == ~(TemplateNames(template) \subseteq DOMAIN mapping)

(***************************************************************************)
(* GeoPlot.render as a whole.                                              *)
(***************************************************************************)
\* The frame of a call: its argument, its locals when it returned or raised
\* (a local not yet bound is empty), the exception and the line it left at;
\* `again` tells a later call of the engine from its first.
RaiseAt(fr, exception, line) == [fr EXCEPT !.raised = exception, !.line = line]

EntryFrame(trajectory, previous) ==
    [called |-> TRUE, again |-> previous.called,
     state_trajectory |-> trajectory, raised |-> "none", line |-> 221,
     coords |-> LocalsAtEntry(previous).coords,
     values |-> LocalsAtEntry(previous).values,
     start_time |-> 0, timestamps |-> <<>>, geojsons |-> <<>>]

\* Lines 222-234: sim_name, then the loop.
Extracted(fr) ==
    IF "name" \notin metadata_keys THEN RaiseAt(fr, "KeyError", 222)
    ELSE Loop(fr, fr.state_trajectory, 1)

\* Lines 237-243: start_time and timestamps.
Timed(fr, now) ==
    IF fr.raised # "none" THEN fr
    ELSE IF "num_episodes" \notin metadata_keys THEN RaiseAt(fr, "KeyError", 239)
    ELSE IF "num_steps_per_episode" \notin metadata_keys THEN RaiseAt(fr, "KeyError", 240)
    ELSE [fr EXCEPT !.start_time = now, !.timestamps = Timestamps(now, TotalSteps)]

\* Lines 246-262: geojsons.
Converted(fr) ==
    IF fr.raised # "none" THEN fr
    ELSE LET pairs == zip(fr.timestamps, fr.values)
             done == [fr EXCEPT !.geojsons = Geojsons(fr.coords, pairs)]
         IN IF Failing(fr.coords, pairs) # {} THEN RaiseAt(done, "IndexError", 257)
            ELSE done

\* Lines 270-276: the arguments of substitute; timestamps[0] and timestamps[-1]
\* raise IndexError on an empty timeline.
Substituted(fr) ==
    IF fr.raised # "none" THEN fr
    ELSE IF Len(fr.timestamps) = 0 THEN RaiseAt(fr, "IndexError", 272)
    ELSE [fr EXCEPT !.line = 276]

\* The frame render leaves when called with `trajectory` at clock value `now`.
RenderFrame(trajectory, now, previous) ==
    Substituted(Converted(Timed(Extracted(EntryFrame(trajectory, previous)), now)))

NoFile == [exists |-> FALSE, text |-> <<>>]
FileOf(text) == [exists |-> TRUE, text |-> text]

\* The values handed to substitute (lines 270-276).
Substitutions(fr) ==
    [accessToken |-> <<Raw(cesium_token)>>,
     startTime |-> <<RawIso(isoformat(fr.timestamps[1]))>>,
     stopTime |-> <<RawIso(isoformat(fr.timestamps[Len(fr.timestamps)]))>>,
     data |-> dumps(fr.geojsons, -1),
     visualType |-> <<Raw(visualization_type)>>]

\* Mutant: the geodata file opened for writing on entry, before the extraction.
GeodataOpenedFirst(fr, old) ==
    IF fr.raised = "none" \/ fr.line > 266 THEN FileOf(dumps(fr.geojsons, 2))
    ELSE FileOf(<<>>)

\* Lines 265-266: open(geodata_path, "w") and json.dump(..., indent=2), reached
\* only when nothing raised before.
GeodataWritten(fr, old) ==
    IF fr.raised = "none" \/ fr.line > 266 THEN FileOf(dumps(fr.geojsons, 2)) ELSE old

\* Lines 269-276: open(geoplot_path, "w") truncates the file; the text is written
\* when substitute and its arguments raised nothing.
GeoplotWritten(fr, old) ==
    IF fr.raised = "none" THEN FileOf(substitute(geoplot_template, Substitutions(fr)))
    ELSE IF fr.line > 269 THEN FileOf(<<>>)
    ELSE old

\* The attributes of the GeoPlot object.
Attributes ==
    [config |-> config, cesium_token |-> cesium_token, step_time |-> step_time,
     entity_position |-> entity_position, entity_property |-> entity_property,
     visualization_type |-> visualization_type]

\* render leaves the object's attributes and the caller's trajectory as they are.
AttributesAfterRender(attributes) == attributes
TrajectoryAfterRender(trajectory) == trajectory

(***************************************************************************)
(* Construction and the operations.                                        *)
(***************************************************************************)
Config(name, num_episodes, num_steps_per_episode) ==
    [simulation_metadata |->
        [name |-> name, num_episodes |-> num_episodes,
         num_steps_per_episode |-> num_steps_per_episode]]
ConfigNoName == [simulation_metadata |-> [num_episodes |-> 3, num_steps_per_episode |-> 2]]
ConfigNoSteps == [simulation_metadata |-> [name |-> "sim", num_episodes |-> 3]]

Options(seconds, visual) ==
    [cesium_token |-> "token", step_time |-> seconds, coordinates |-> CoordinatesPath,
     feature |-> FeaturePath, visualization_type |-> visual]

\* The (config, options) pairs an engine is constructed with.
Setups ==
    { [config |-> Config("sim", 3, 2), options |-> Options(3600, "color")],
      [config |-> Config("sim", 1, 1), options |-> Options(60, "size")],
      [config |-> Config("sim", 2, 1), options |-> Options(0, "size")],
      [config |-> Config("sim", 0, 2), options |-> Options(3600, "color")],
      [config |-> ConfigNoName, options |-> Options(3600, "color")],
      [config |-> ConfigNoSteps, options |-> Options(3600, "size")] }

\* The values pd.Timestamp.utcnow() may return, in seconds.
Clock == {1000, 86000}

NoFrame ==
    [called |-> FALSE, again |-> FALSE,
     state_trajectory |-> <<>>, raised |-> "none", line |-> 0,
     coords |-> <<>>, values |-> <<>>, start_time |-> 0, timestamps |-> <<>>,
     geojsons |-> <<>>]

\* GeoPlot.__init__(config, options), before any step of the runner.
Init ==
    \E setup \in Setups :
        /\ config = setup.config
        /\ cesium_token = setup.options.cesium_token
        /\ step_time = setup.options.step_time
        /\ entity_position = setup.options.coordinates
        /\ entity_property = setup.options.feature
        /\ visualization_type = setup.options.visualization_type
        /\ state_trajectory = <<>>
        /\ geodata_file = NoFile
        /\ geoplot_file = NoFile
        /\ frame = NoFrame

\* runner.step(steps): the caller's trajectory gains an episode.
RunnerStep(episode) ==
    /\ Len(state_trajectory) < MaxEpisodes
    /\ state_trajectory' = Append(state_trajectory, episode)
    /\ UNCHANGED <<self, files, frame>>

\* engine.render(runner.state_trajectory) at clock value `now`.
Render(now) ==
    LET fr == RenderFrame(state_trajectory, now, frame)
    IN /\ frame' = fr
       /\ geodata_file' = GeodataWritten(fr, geodata_file)
       /\ geoplot_file' = GeoplotWritten(fr, geoplot_file)
       /\ LET after == AttributesAfterRender(Attributes)
          IN /\ config' = after.config
             /\ cesium_token' = after.cesium_token
             /\ step_time' = after.step_time
             /\ entity_position' = after.entity_position
             /\ entity_property' = after.entity_property
             /\ visualization_type' = after.visualization_type
       /\ state_trajectory' = TrajectoryAfterRender(state_trajectory)

Next ==
    \/ \E episode \in Episodes : RunnerStep(episode)
    \/ \E now \in Clock : Render(now)

Spec == Init /\ [][Next]_vars

(***************************************************************************)
(* Reading the output back: json.loads of a GeoJSON text, and the inverse  *)
(* of isoformat.  These serve the properties below.                        *)
(***************************************************************************)
Parsed(value, next) == [ok |-> TRUE, value |-> value, next |-> next]
Unparsed == [ok |-> FALSE, value |-> <<>>, next |-> 0]

NoSpace(text) == SelectSeq(text, LAMBDA tk : tk.t # "space")

\* The tokens `expected` stand at position i of toks.
Expect(toks, i, expected) ==
    /\ i + Len(expected) - 1 <= Len(toks)
    /\ SubSeq(toks, i, i + Len(expected) - 1) = expected

IsNumber(toks, i) == i <= Len(toks) /\ toks[i].t = "number"
IsTime(toks, i) == i <= Len(toks) /\ toks[i].t = "string" /\ toks[i].s = ""

\* The numbers of an array, from its first item at i up to its "]".
RECURSIVE ParseNumbers(_, _, _)
ParseNumbers(toks, i, acc) ==
    IF Expect(toks, i, <<Punct("]")>>) /\ acc = <<>> THEN Parsed(acc, i + 1)
    ELSE IF ~IsNumber(toks, i) THEN Unparsed
    ELSE IF Expect(toks, i + 1, <<Punct("]")>>) THEN Parsed(Append(acc, toks[i].n), i + 2)
    ELSE IF Expect(toks, i + 1, <<Punct(",")>>)
         THEN ParseNumbers(toks, i + 2, Append(acc, toks[i].n))
    ELSE Unparsed

FeatureHead ==
    <<Punct("{"), Quoted("type"), Punct(":"), Quoted("Feature"), Punct(","),
      Quoted("geometry"), Punct(":"), Punct("{"), Quoted("type"), Punct(":"),
      Quoted("Point"), Punct(","), Quoted("coordinates"), Punct(":"), Punct("[")>>
FeatureMiddle ==
    <<Punct("}"), Punct(","), Quoted("properties"), Punct(":"), Punct("{"),
      Quoted("value"), Punct(":")>>
FeatureTime == <<Punct(","), Quoted("time"), Punct(":")>>
FeatureEnd == <<Punct("}"), Punct("}")>>

ParseFeature(toks, i) ==
    IF ~Expect(toks, i, FeatureHead) THEN Unparsed
    ELSE LET c == ParseNumbers(toks, i + Len(FeatureHead), <<>>)
             v == c.next + Len(FeatureMiddle)
             t == v + 1 + Len(FeatureTime)
         IN IF /\ c.ok
               /\ Expect(toks, c.next, FeatureMiddle)
               /\ IsNumber(toks, v)
               /\ Expect(toks, v + 1, FeatureTime)
               /\ IsTime(toks, t)
               /\ Expect(toks, t + 1, FeatureEnd)
            THEN Parsed([type |-> "Feature",
                         geometry |-> [type |-> "Point", coordinates |-> c.value],
                         properties |-> [value |-> toks[v].n, time |-> toks[t].iso]],
                        t + 1 + Len(FeatureEnd))
            ELSE Unparsed

\* The features of an array, from its first item at i up to its "]".
RECURSIVE ParseFeatures(_, _, _)
ParseFeatures(toks, i, acc) ==
    IF Expect(toks, i, <<Punct("]")>>) /\ acc = <<>> THEN Parsed(acc, i + 1)
    ELSE LET f == ParseFeature(toks, i)
         IN IF ~f.ok THEN Unparsed
            ELSE IF Expect(toks, f.next, <<Punct("]")>>)
                 THEN Parsed(Append(acc, f.value), f.next + 1)
            ELSE IF Expect(toks, f.next, <<Punct(",")>>)
                 THEN ParseFeatures(toks, f.next + 1, Append(acc, f.value))
            ELSE Unparsed

CollectionHead ==
    <<Punct("{"), Quoted("type"), Punct(":"), Quoted("FeatureCollection"), Punct(","),
      Quoted("features"), Punct(":"), Punct("[")>>

ParseCollection(toks, i) ==
    IF ~Expect(toks, i, CollectionHead) THEN Unparsed
    ELSE LET fs == ParseFeatures(toks, i + Len(CollectionHead), <<>>)
         IN IF fs.ok /\ Expect(toks, fs.next, <<Punct("}")>>)
            THEN Parsed([type |-> "FeatureCollection", features |-> fs.value], fs.next + 1)
            ELSE Unparsed

RECURSIVE ParseCollections(_, _, _)
ParseCollections(toks, i, acc) ==
    IF Expect(toks, i, <<Punct("]")>>) /\ acc = <<>> THEN Parsed(acc, i + 1)
    ELSE LET c == ParseCollection(toks, i)
         IN IF ~c.ok THEN Unparsed
            ELSE IF Expect(toks, c.next, <<Punct("]")>>)
                 THEN Parsed(Append(acc, c.value), c.next + 1)
            ELSE IF Expect(toks, c.next, <<Punct(",")>>)
                 THEN ParseCollections(toks, c.next + 1, Append(acc, c.value))
            ELSE Unparsed

\* json.loads(text): the list of feature collections the text denotes; ok is
\* FALSE when the text is not one JSON array of feature collections.
loads(text) ==
    LET toks == NoSpace(text)
        doc == IF Expect(toks, 1, <<Punct("[")>>) THEN ParseCollections(toks, 2, <<>>)
               ELSE Unparsed
    IN IF doc.ok /\ doc.next = Len(toks) + 1 THEN doc ELSE Unparsed

\* The seconds an ISO-8601 time denotes.
fromisoformat(i) == i.days * 86400 + i.hh * 3600 + i.mm * 60 + i.ss

\* `part` occurs in `text` as a contiguous run of tokens.
Contains(text, part) ==
    \E i \in 1..(Len(text) - Len(part) + 1) : SubSeq(text, i, i + Len(part) - 1) = part

(***************************************************************************)
(* Properties.                                                             *)
(***************************************************************************)
\* The most recent render call returned normally.
Succeeded == frame.called /\ frame.raised = "none"

\* What json.load reads back from the .geojson file.
Written == loads(geodata_file.text)

\* The last snapshot of an episode, and the arrays at the two option paths in it.
LastSnapshot(episode) == episode[Len(episode)]
CoordsIn(snapshot) == read_var(snapshot, entity_position)
FeatureIn(snapshot) == read_var(snapshot, entity_property)
CoordsAre(snapshot, pairs) ==
    CoordsIn(snapshot).raised = "none" /\ tolist(CoordsIn(snapshot).value) = pairs

RequiredKeys == {"name", "num_episodes", "num_steps_per_episode"}
\* The config is a SimulationConfig: every key present, both counts at least 1.
ValidConfig ==
    /\ RequiredKeys \subseteq DOMAIN config.simulation_metadata
    /\ config.simulation_metadata.num_episodes >= 1
    /\ config.simulation_metadata.num_steps_per_episode >= 1

\* Both paths resolve in the final snapshot of every processed episode.
Resolvable(trajectory) ==
    \A i \in 1..(Len(trajectory) - 1) :
        /\ Len(trajectory[i]) > 0
        /\ CoordsIn(LastSnapshot(trajectory[i])).raised = "none"
        /\ FeatureIn(LastSnapshot(trajectory[i])).raised = "none"

\* Every processed episode has a value for every agent of the last processed one.
Covered(trajectory) ==
    \A i \in 1..(Len(trajectory) - 1) :
        Len(flatten(FeatureIn(LastSnapshot(trajectory[i])).value))
            >= Len(tolist(CoordsIn(LastSnapshot(trajectory[Len(trajectory) - 1])).value))

\* C1 reads: a two-episode trajectory whose episode 0 ends at coordinates [[1, 2]]
\* and whose episode 1 ends at [[3, 4]].
C1_Case ==
    /\ Succeeded
    /\ Len(frame.state_trajectory) = 2
    /\ CoordsAre(LastSnapshot(frame.state_trajectory[1]), << <<1, 2>> >>)
    /\ CoordsAre(LastSnapshot(frame.state_trajectory[2]), << <<3, 4>> >>)

\* C1 as stated: in that case the coordinate set used for the output is [[3, 4]],
\* the one of episode 1.
C1_UsesSecondEpisode == C1_Case => frame.coords = << <<3, 4>> >>

\* C1 amended: in that case the coordinate set used for the output is [[1, 2]],
\* the one of episode 0 (the only episode processed), not an aggregate of both:
\* the .geojson holds one collection, every feature of it at [2, 1].
C1_UsesFirstEpisode ==
    C1_Case =>
        /\ frame.coords = << <<1, 2>> >>
        /\ Written.ok
        /\ Len(Written.value) = 1
        /\ Len(Written.value[1].features) >= 1
        /\ \A k \in 1..Len(Written.value[1].features) :
               Written.value[1].features[k].geometry.coordinates = <<2, 1>>

C1_Witness == C1_Case /\ geodata_file.exists

\* C2: the template has five substitutions (access token, visualization type,
\* start time, stop time, dataset) and, after a render that produced feature
\* collections, the .html text contains the JSON serialization of the
\* collections written to the .geojson file.
C2_ViewerEmbedsData ==
    (Succeeded /\ frame.geojsons # <<>>) =>
        /\ TemplateNames(geoplot_template)
               = {"accessToken", "visualType", "startTime", "stopTime", "data"}
        /\ Written.ok
        /\ Contains(geoplot_file.text, dumps(Written.value, -1))

\* C3: after a successful render every feature collection read back from the
\* .geojson has min(num_episodes * num_steps_per_episode, len(trajectory) - 1)
\* features; and unequal counts raise nothing: with a valid config, resolvable
\* paths and a value per agent, render succeeds whatever the two counts are.
C3_FeatureCount ==
    /\ Succeeded =>
          /\ Written.ok
          /\ Len(frame.timestamps) = TotalSteps
          /\ \A c \in 1..Len(Written.value) :
                 Len(Written.value[c].features)
                     = Min(TotalSteps, Len(frame.state_trajectory) - 1)
    /\ ( /\ frame.called
         /\ ValidConfig
         /\ Resolvable(frame.state_trajectory)
         /\ Covered(frame.state_trajectory) ) => Succeeded

\* The value sequence is the longer one and is cut to the timeline.
C3_Witness ==
    /\ Succeeded
    /\ Written.ok
    /\ Len(Written.value) >= 1
    /\ TotalSteps < Len(frame.state_trajectory) - 1
    /\ Len(Written.value[1].features) = TotalSteps

\* C4: every feature of agent idx read back from the .geojson has coordinates
\* [original[1], original[0]] (0-based), original being the agent's extracted
\* [lat, lon] pair, for every agent and every timestep.
C4_LongitudeFirst ==
    Succeeded =>
        /\ Written.ok
        /\ Len(Written.value) = Len(frame.coords)
        /\ \A idx \in 1..Len(Written.value) :
               \A k \in 1..Len(Written.value[idx].features) :
                   Written.value[idx].features[k].geometry.coordinates
                       = <<frame.coords[idx][2], frame.coords[idx][1]>>

C4_Witness ==
    /\ Succeeded
    /\ Written.ok
    /\ Len(Written.value) = 2
    /\ Len(Written.value[2].features) = 2
    /\ frame.coords[2] = <<3, 4>>

\* The call got as far as the timeline (line 243).
TimelineBuilt == frame.called /\ (frame.raised = "none" \/ frame.line > 243)

\* C5: the timeline has num_episodes * num_steps_per_episode entries, the first the
\* clock value of the call and entry i (0-based) i * step_time seconds later,
\* whatever the length of the trajectory; 3 episodes of 2 steps at 3600 s give 6
\* entries 3600 s apart.
C5_Timeline ==
    TimelineBuilt =>
        /\ frame.start_time \in Clock
        /\ Len(frame.timestamps) = TotalSteps
        /\ \A k \in 1..Len(frame.timestamps) :
               frame.timestamps[k] = frame.start_time + (k - 1) * step_time
        /\ ( /\ config.simulation_metadata.num_episodes = 3
             /\ config.simulation_metadata.num_steps_per_episode = 2
             /\ step_time = 3600 )
           => /\ Len(frame.timestamps) = 6
              /\ \A k \in 1..5 : frame.timestamps[k + 1] - frame.timestamps[k] = 3600

C5_Witness ==
    /\ TimelineBuilt
    /\ Len(frame.timestamps) = 6
    /\ step_time = 3600
    /\ Len(frame.state_trajectory) = 1
    /\ frame.timestamps[6] = frame.start_time + 18000

\* A path is absent from the final snapshot of a processed episode.
PathAbsent(trajectory) ==
    \E i \in 1..(Len(trajectory) - 1) :
        /\ Len(trajectory[i]) > 0
        /\ \/ CoordsIn(LastSnapshot(trajectory[i])).raised # "none"
           \/ FeatureIn(LastSnapshot(trajectory[i])).raised # "none"

KeyAbsent == ~(RequiredKeys \subseteq DOMAIN config.simulation_metadata)

\* A step that is a render call: the frame after it is a call's, and the
\* caller's trajectory did not grow.
RenderStep == frame'.called /\ Len(state_trajectory') = Len(state_trajectory)

C7_OrderedOneAgent ==
    (Succeeded /\ step_time > 0) =>
        /\ Written.ok
        /\ \A c \in 1..Len(Written.value) :
               \A k \in 1..(Len(Written.value[c].features) - 1) :
                   /\ fromisoformat(Written.value[c].features[k].properties.time)
                          < fromisoformat(Written.value[c].features[k + 1].properties.time)
                   /\ Written.value[c].features[k].geometry.coordinates
                          = Written.value[c].features[k + 1].geometry.coordinates

\* Two agents with two features each, the second past midnight of the first.
C7_Witness ==
    /\ Succeeded
    /\ step_time > 0
    /\ Written.ok
    /\ Len(Written.value) = 2
    /\ Len(Written.value[1].features) = 2
    /\ Written.value[1].features[1].properties.time.days
           < Written.value[1].features[2].properties.time.days

\* What a first call of a freshly constructed engine leaves, with no output file
\* there yet.
FreshFrame(trajectory, now) == RenderFrame(trajectory, now, NoFrame)

\* C8: render keeps no state and modifies no input.  What a successful call wrote
\* is what the first call of a fresh engine writes for the same trajectory,
\* config, options and clock value, whatever calls came before; and a render call
\* changes neither the engine's attributes nor the caller's trajectory.
C8_Stateless ==
    /\ [](Succeeded =>
            LET fresh == FreshFrame(frame.state_trajectory, frame.start_time)
            IN /\ fresh.raised = "none"
               /\ geodata_file = GeodataWritten(fresh, NoFile)
               /\ geoplot_file = GeoplotWritten(fresh, NoFile))
    /\ [][ (frame' # frame \/ files' # files) =>
               (self' = self /\ state_trajectory' = state_trajectory) ]_vars

\* A successful call that is not the engine's first, after a longer history.
C8_Witness ==
    /\ Succeeded
    /\ frame.again
    /\ Len(frame.state_trajectory) = 3
    /\ Len(frame.geojsons) = 2

\* The trajectory with its last episode replaced.
WithLastEpisode(trajectory, episode) ==
    [i \in 1..Len(trajectory) |-> IF i = Len(trajectory) THEN episode ELSE trajectory[i]]
\* The trajectory with every episode cut down to its final snapshot.
FinalSnapshotsOnly(trajectory) ==
    [i \in 1..Len(trajectory) |-> <<LastSnapshot(trajectory[i])>>]

\* C9: of a trajectory of n episodes render reads the final snapshots of episodes
\* 0..n-2 only: feature k (0-based, k < min(n-1, total steps)) of agent idx has
\* the idx-th element of the flattened feature array of episode k's final
\* snapshot as value and t0 + k * step_time as time; and the outcome is the same
\* with any other last episode and with the earlier snapshots dropped.
C9_FinalSnapshotsButLast ==
    Succeeded =>
        /\ Written.ok
        /\ \A idx \in 1..Len(Written.value) :
               \A k \in 1..Min(Len(frame.state_trajectory) - 1, TotalSteps) :
                   /\ k <= Len(Written.value[idx].features)
                   /\ FeatureIn(LastSnapshot(frame.state_trajectory[k])).raised = "none"
                   /\ idx <= Len(flatten(FeatureIn(LastSnapshot(frame.state_trajectory[k])).value))
                   /\ Written.value[idx].features[k].properties.value
                          = flatten(FeatureIn(LastSnapshot(frame.state_trajectory[k])).value)[idx]
                   /\ fromisoformat(Written.value[idx].features[k].properties.time)
                          = frame.start_time + (k - 1) * step_time
        /\ \A episode \in Episodes :
               Len(frame.state_trajectory) >= 1 =>
                   LET other == FreshFrame(WithLastEpisode(frame.state_trajectory, episode),
                                           frame.start_time)
                   IN other.raised = "none" /\ other.geojsons = frame.geojsons
        /\ FreshFrame(FinalSnapshotsOnly(frame.state_trajectory), frame.start_time).geojsons
               = frame.geojsons

\* The last episode ends in a snapshot without coordinates and render succeeds;
\* a processed episode has an earlier snapshot with another value.
C9_Witness ==
    /\ Succeeded
    /\ Len(frame.state_trajectory) = 3
    /\ CoordsIn(LastSnapshot(frame.state_trajectory[3])).raised # "none"
    /\ Len(frame.state_trajectory[1]) = 2
    /\ Written.ok
    /\ Len(Written.value) >= 1
    /\ Len(Written.value[1].features) = 2

\* C10: the coordinate set used is the one of the final snapshot of episode
\* len(trajectory) - 2, earlier ones overwritten; the .geojson has one collection
\* per agent of that set, in agent order; and with fewer than 2 episodes (and a
\* valid config) render succeeds, the .geojson is an empty array and both files
\* are written.
C10_LastProcessedCoords ==
    /\ Succeeded =>
          /\ Written.ok
          /\ frame.coords
                 = (IF Len(frame.state_trajectory) >= 2
                    THEN tolist(CoordsIn(LastSnapshot(
                             frame.state_trajectory[Len(frame.state_trajectory) - 1])).value)
                    ELSE <<>>)
          /\ Len(Written.value) = Len(frame.coords)
          /\ \A idx \in 1..Len(Written.value) :
                 /\ Len(Written.value[idx].features) >= 1
                 /\ \A k \in 1..Len(Written.value[idx].features) :
                        Written.value[idx].features[k].geometry.coordinates
                            = <<frame.coords[idx][2], frame.coords[idx][1]>>
    /\ (frame.called /\ ValidConfig /\ Len(frame.state_trajectory) < 2) =>
          /\ Succeeded
          /\ geodata_file = FileOf(<<Punct("["), Punct("]")>>)
          /\ geoplot_file.exists
          /\ geoplot_file.text # <<>>

\* Three episodes: the first ends at [[3, 4]], the second (the last one
\* processed) at [[1, 2]], which is the set used.
C10_Witness ==
    /\ Succeeded
    /\ Len(frame.state_trajectory) = 3
    /\ CoordsAre(LastSnapshot(frame.state_trajectory[1]), << <<3, 4>> >>)
    /\ frame.coords = << <<1, 2>> >>
    /\ Written.ok
    /\ Len(Written.value) = 1
    /\ Len(Written.value[1].features) = 2

====
